---- MODULE Spec2Model ----
(***************************************************************************)
(* Model of the agent gateway: the plan parser (output_parser.py), the     *)
(* fuser reply parser and the plan/execute/fuse/replan loop (gateway.py).  *)
(*                                                                         *)
(* Text is modelled as a sequence of characters.  The characters "$", "{", *)
(* "}", "(", ")" and the digits stand for themselves; every other element  *)
(* stands for a stretch of ordinary text that contains none of them.       *)
(***************************************************************************)
EXTENDS Integers, Sequences, FiniteSets, TLC

VARIABLES
    \* GatewayPlanParser.parse
    tools,        \* self.tools, the registry of operation names
    matches,      \* the records re.findall found in the plan text
    graph,        \* graph_dict returned by parse (idx -> Task)
    raised,       \* parse ended with OutputParserException
    ppc,          \* "off" | "planned" | "parsed"
    \* Agent._parse_fusion_output on one fuser reply
    raw_answer,   \* the fuser reply
    fusion,       \* what _parse_fusion_output gave for it
    fpc,          \* "off" | "replied" | "parsed"
    \* Agent.acall
    max_retries,      \* self.max_retries
    opc,              \* "off" | "start" | "planning" | "executing" | "fusing"
                      \* | "done" | "raised"
    i,                \* the loop variable of acall
    contexts,         \* the list of replan contexts
    inputs,           \* inputs["context"], NoContext while the key is absent
    tasks,            \* texts of the non-fuse tasks of the current graph
    agent_scratchpad, \* the scratchpad string
    fusion_thought,   \* thought of the last fuse call
    answer,           \* answer of the last fuse call
    is_replan,        \* replan flag of the last fuse call
    planner_calls,    \* log: one entry per planner.plan call
    fuser_calls,      \* log: one entry per fuse call
    output,           \* the dict acall returned
    \* -- Agent.__call__ --------------------------------------------------
    cpc,              \* position of the caller of __call__
    tpc,              \* position of the background thread
    result,           \* the list the thread appends acall's return to
    returned,         \* what __call__ returned
    \* -- the scheduler over one task graph -------------------------------
    streaming,        \* TRUE: tasks arrive one by one; FALSE: batch
    plan,             \* the task graph: id -> [deps, is_fuse]
    arrived,          \* number of tasks the scheduler has been handed
    remaining,        \* per task: remaining-dependency count
    status,           \* per task: pending, ready, running, completed,
                      \* failed or skipped
    invoked,          \* per task: number of invocations of its operation
    error,            \* per task: the recorded error, if any
    spc               \* position of the scheduler

pvars == <<tools, matches, graph, raised, ppc>>

fvars == <<raw_answer, fusion, fpc>>

ovars == <<max_retries, opc, i, contexts, inputs, tasks, agent_scratchpad,
           fusion_thought, answer, is_replan, planner_calls, fuser_calls,
           output>>

cvars == <<cpc, tpc, result, returned>>

svars == <<streaming, plan, arrived, remaining, status, invoked, error, spc>>

vars == <<pvars, fvars, ovars, cvars, svars>>

\* ------------------------------------------------------------------------
\* Bounds and input pools
\* ------------------------------------------------------------------------

\* Largest number of records in one plan text.
MaxRecords == 3

\* How the planner numbered its records: the id written in front of the
\* k-th record (k = 1, 2, ...), as the regex group (\d+) captures it.
NumberingSchemes == {"sequential", "shifted", "repeated", "gapped"}

\* Operation names the planner may write.
SearchTool == "docs_cortexsearch"
OtherTool == "run_query"
FuseName == "fuse"
SummarizeName == "summarize"
PlanNames == {SearchTool, OtherTool, FuseName}

\* The registries handed to GatewayPlanParser: the user's tools plus the
\* summarizer that Agent.__init__ always appends.
Registries ==
    { {SearchTool, OtherTool, SummarizeName}, {SearchTool, SummarizeName} }

\* Argument strings the planner may write between the parentheses.
ArgPool ==
    { <<>>,
      <<"$", "1">>,
      <<"$", "{", "1", "}">>,
      <<"$", "{", "2", "}">> }

PlanThought == "t"
SummaryThought == "I need to concisely summarize the cortex search output"

\* ------------------------------------------------------------------------
\* Strings and numbers
\* ------------------------------------------------------------------------

DigitChars == <<"0", "1", "2", "3", "4", "5", "6", "7", "8", "9">>

Digits == {DigitChars[k] : k \in DOMAIN DigitChars}

DigitVal(c) == (CHOOSE k \in DOMAIN DigitChars : DigitChars[k] = c) - 1

\* int(s) for a string of digits
RECURSIVE StrToInt(_)
StrToInt(ds) ==
    IF ds = <<>> THEN 0
    ELSE 10 * StrToInt(SubSeq(ds, 1, Len(ds) - 1)) + DigitVal(ds[Len(ds)])

\* str(n) for n >= 0
RECURSIVE IntToStr(_)
IntToStr(n) ==
    IF n < 10 THEN <<DigitChars[n + 1]>>
    ELSE IntToStr(n \div 10) \o <<DigitChars[(n % 10) + 1]>>

OrigId(scheme, k) ==
    IntToStr(CASE scheme = "sequential" -> k
               [] scheme = "shifted"    -> k + 1
               [] scheme = "repeated"   -> 1
               [] scheme = "gapped"     -> 2 * k - 1)

\* \d+ is greedy: the index just after the run of digits that starts at k
RECURSIVE DigitRunEnd(_, _)
DigitRunEnd(s, k) ==
    IF k <= Len(s) /\ s[k] \in Digits THEN DigitRunEnd(s, k + 1) ELSE k

\* dict.get(key, default) and dict[key] = value
MapGet(m, key, default) == IF key \in DOMAIN m THEN m[key] ELSE default

MapPut(m, key, value) ==
    [x \in DOMAIN m \cup {key} |-> IF x = key THEN value ELSE m[x]]

EmptyMap == [x \in {} |-> <<>>]

\* ------------------------------------------------------------------------
\* output_parser.py
\* ------------------------------------------------------------------------

\* re.findall(ID_PATTERN, args) with ID_PATTERN = \$\{?(\d+)\}? , each match
\* converted by int(): the set of numbers found scanning from index k.
RECURSIVE IdMatches(_, _)
IdMatches(s, k) ==
    IF k > Len(s) THEN {}
    ELSE IF s[k] = "$"
         THEN LET b == IF k + 1 <= Len(s) /\ s[k + 1] = "{" THEN k + 2 ELSE k + 1
                  e == DigitRunEnd(s, b)
                  f == IF e <= Len(s) /\ s[e] = "}" THEN e + 1 ELSE e
              IN  IF e > b
                  THEN {StrToInt(SubSeq(s, b, e - 1))} \cup IdMatches(s, f)
                  ELSE IdMatches(s, k + 1)
         ELSE IdMatches(s, k + 1)

\* a rule that knows the bare form $n only
RECURSIVE BareIdMatches(_, _)
BareIdMatches(s, k) ==
    IF k > Len(s) THEN {}
    ELSE LET e == DigitRunEnd(s, k + 1)
         IN  IF s[k] = "$" /\ e > k + 1
             THEN {StrToInt(SubSeq(s, k + 1, e - 1))} \cup BareIdMatches(s, e)
             ELSE BareIdMatches(s, k + 1)

bare_dependency_rule(idx, args) == idx \in BareIdMatches(args, 1)

default_dependency_rule(idx, args) == idx \in IdMatches(args, 1)

\* "cortexsearch" in task[2]
IsSearchName(name) == name = SearchTool

\* a summarize step that takes the id of its search step
create_summarization_step_same_id(context, index) ==
    [thought |-> SummaryThought,
     idx     |-> IntToStr(index),
     name    |-> SummarizeName,
     args    |-> <<"Concisely give me ">> \o context
                 \o <<" ONLY using the following context: ", "$">>
                 \o IntToStr(index)
                 \o <<". DO NOT include any other rationale.">>]

create_summarization_step(context, index) ==
    [thought |-> SummaryThought,
     idx     |-> IntToStr(index + 1),
     name    |-> SummarizeName,
     args    |-> <<"Concisely give me ">> \o context
                 \o <<" ONLY using the following context: ", "$">>
                 \o IntToStr(index)
                 \o <<". DO NOT include any other rationale.">>]

\* The loop of _initialize_task_list from record pos (0-based) on.
RECURSIVE initialize_loop(_, _, _, _, _)
initialize_loop(ms, pos, current_index, new_matches, index_mapping) ==
    IF pos >= Len(ms)
    THEN [new_matches |-> new_matches, index_mapping |-> index_mapping]
    ELSE LET task == ms[pos + 1]
             mapped == MapPut(index_mapping, task.idx, IntToStr(current_index))
             updated_task == [thought |-> task.thought,
                              idx     |-> IntToStr(current_index),
                              name    |-> task.name,
                              args    |-> task.args]
             appended == Append(new_matches, updated_task)
         IN  IF IsSearchName(task.name) /\ pos # Len(ms) - 2
             THEN initialize_loop(
                      ms, pos + 1, current_index + 2,
                      Append(appended,
                             create_summarization_step(task.args, current_index)),
                      MapPut(mapped, task.idx, IntToStr(current_index + 1)))
             ELSE initialize_loop(ms, pos + 1, current_index + 1, appended, mapped)

\* a task list that is closed with a fuse record when the plan has none
initialize_task_list_closed(ms) ==
    LET r == initialize_loop(ms, 0, 1, <<>>, EmptyMap)
    IN  IF \E k \in 1..Len(ms) : ms[k].name = FuseName
        THEN r
        ELSE [new_matches |->
                  Append(r.new_matches,
                         [thought |-> PlanThought,
                          idx     |-> IntToStr(Len(r.new_matches) + 1),
                          name    |-> FuseName,
                          args    |-> <<>>]),
              index_mapping |-> r.index_mapping]

initialize_task_list(ms) == initialize_loop(ms, 0, 1, <<>>, EmptyMap)

\* re.sub(r"\$(\d+)", lambda m: "$" + index_mapping.get(m.group(1), m.group(1)))
RECURSIVE SubRefs(_, _, _)
SubRefs(s, k, index_mapping) ==
    IF k > Len(s) THEN <<>>
    ELSE LET e == DigitRunEnd(s, k + 1)
             key == SubSeq(s, k + 1, e - 1)
         IN  IF s[k] = "$" /\ e > k + 1
             THEN <<"$">> \o MapGet(index_mapping, key, key)
                  \o SubRefs(s, e, index_mapping)
             ELSE <<s[k]>> \o SubRefs(s, k + 1, index_mapping)

update_task_references(task, index_mapping) ==
    [thought |-> task.thought,
     idx     |-> task.idx,
     name    |-> task.name,
     args    |-> SubRefs(task.args, 1, index_mapping)]

update_task_list_with_summarization(ms) ==
    LET r == initialize_task_list(ms)
    IN  [k \in 1..Len(r.new_matches) |->
            update_task_references(r.new_matches[k], r.index_mapping)]

\* Over the characters of the model an argument string is either empty or
\* holds "$" or a bare word, so ast.literal_eval raises and the string comes
\* back as the only element of the tuple.
parse_llm_compiler_action_args(args) ==
    IF args = <<>> THEN <<>> ELSE <<args>>

\* dependencies that are every id the argument string names
get_dependencies_any_id(idx, tool_name, args) ==
    IF tool_name = FuseName
    THEN 1..(idx - 1)
    ELSE IdMatches(args, 1)

\* a fuse step that waits for the step in front of it only
get_dependencies_previous_step(idx, tool_name, args) ==
    IF tool_name = FuseName
    THEN {idx - 1} \ {0}
    ELSE {dep \in 1..(idx - 1) : default_dependency_rule(dep, args)}

\* dependencies counted from id 0 on
get_dependencies_from_zero(idx, tool_name, args) ==
    IF tool_name = FuseName
    THEN 0..(idx - 1)
    ELSE {dep \in 0..(idx - 1) : default_dependency_rule(dep, args)}

get_dependencies_from_graph(idx, tool_name, args) ==
    IF tool_name = FuseName
    THEN 1..(idx - 1)
    ELSE {dep \in 1..(idx - 1) : default_dependency_rule(dep, args)}

\* _find_tool raises when no tool carries the name
find_tool_raises(tool_name, registry) == tool_name \notin registry

instantiate_task(registry, idx, tool_name, args, thought) ==
    [idx          |-> idx,
     name         |-> tool_name,
     args         |-> parse_llm_compiler_action_args(args),
     dependencies |-> get_dependencies_from_graph(idx, tool_name, args),
     thought      |-> thought,
     is_fuse      |-> (tool_name = FuseName)]

instantiate_raises(registry, tool_name) ==
    tool_name # FuseName /\ find_tool_raises(tool_name, registry)

\* a loop that reads on after the fuse task
never_stops(task) == FALSE

\* if task.is_fuse: break
stops_at(task) == task.is_fuse

\* The loop of parse over final_matches from position k on.
RECURSIVE parse_loop(_, _, _, _)
parse_loop(registry, final_matches, k, graph_dict) ==
    IF k > Len(final_matches)
    THEN [raised |-> FALSE, graph |-> graph_dict]
    ELSE LET m == final_matches[k]
             idx == StrToInt(m.idx)
             task == instantiate_task(registry, idx, m.name, m.args, m.thought)
         IN  IF instantiate_raises(registry, m.name)
             THEN [raised |-> TRUE, graph |-> EmptyMap]
             ELSE IF stops_at(task)
                  THEN [raised |-> FALSE, graph |-> MapPut(graph_dict, idx, task)]
                  ELSE parse_loop(registry, final_matches, k + 1,
                                  MapPut(graph_dict, idx, task))

parse(registry, ms) ==
    parse_loop(registry, update_task_list_with_summarization(ms), 1, EmptyMap)



\* ------------------------------------------------------------------------
\* gateway.py: the fuser reply
\* ------------------------------------------------------------------------

\* A reply is a sequence of these pieces; each of the first four is the
\* text it shows, every other piece is one ordinary character.
FinishOpen == "Action: Finish("
ReplanWord == "Replan"
ThoughtOpen == "Thought: "
BlankLine == "\n\n"

\* len() of one piece
PieceLen(t) ==
    CASE t = FinishOpen  -> 15
      [] t = ReplanWord  -> 6
      [] t = ThoughtOpen -> 9
      [] t = BlankLine   -> 2
      [] OTHER           -> 1

\* agent_gateway.gateway.constants.FUSION_REPLAN
FUSION_REPLAN == ReplanWord

\* Python's None and a value that is not None
None == [none |-> TRUE, text |-> <<>>]

Some(t) == [none |-> FALSE, text |-> t]

Clarification ==
    <<ReplanWord, " required. Consider rephrasing your question.">>

\* Position of the first piece equal to t, 0 when there is none.
FirstPos(s, t) ==
    IF \E k \in 1..Len(s) : s[k] = t
    THEN CHOOSE k \in 1..Len(s) :
             s[k] = t /\ \A j \in 1..(k - 1) : s[j] # t
    ELSE 0

\* Number of characters in front of position k.
RECURSIVE CharsBefore(_, _)
CharsBefore(s, k) ==
    IF k <= 1 THEN 0 ELSE CharsBefore(s, k - 1) + PieceLen(s[k - 1])

\* str.find(t): the character index of the first occurrence, -1 if none
find(s, t) == IF FirstPos(s, t) = 0 THEN -1 ELSE CharsBefore(s, FirstPos(s, t))

\* a scan that ends at the first ")" whatever was opened before it
RECURSIVE ScanFirstClose(_, _, _)
ScanFirstClose(s, k, parentheses_count) ==
    IF k > Len(s) THEN 0
    ELSE IF s[k] = ")" THEN k
    ELSE ScanFirstClose(s, k + 1, parentheses_count)

\* The for loop of _extract_answer from position k on with the count so far:
\* the position of the ")" that brings the count to zero, 0 if the loop
\* runs off the end.  A further "Action: Finish(" holds a "(" of its own.
RECURSIVE ScanClose(_, _, _)
ScanClose(s, k, parentheses_count) ==
    IF k > Len(s) THEN 0
    ELSE IF s[k] = "(" \/ s[k] = FinishOpen
         THEN ScanClose(s, k + 1, parentheses_count + 1)
         ELSE IF s[k] = ")"
              THEN IF parentheses_count - 1 = 0
                   THEN k
                   ELSE ScanClose(s, k + 1, parentheses_count - 1)
              ELSE ScanClose(s, k + 1, parentheses_count)

extract_answer(raw) ==
    LET start_pos == FirstPos(raw, FinishOpen)
        replan_index == find(raw, ReplanWord)
        end_pos == ScanClose(raw, start_pos + 1, 1)
    IN  IF start_pos # 0
        THEN IF end_pos = 0
             THEN None
             ELSE Some(SubSeq(raw, start_pos + 1, end_pos - 1))
        ELSE IF replan_index # 1
             THEN Some(Clarification)
             ELSE None

\* re.search(r"Thought: (.*?)\n\n", raw): "." matches no newline, so group 1
\* runs from the first "Thought: " to the next blank line.
extract_thought(raw) ==
    LET t == FirstPos(raw, ThoughtOpen)
        rest == SubSeq(raw, t + 1, Len(raw))
        n == FirstPos(rest, BlankLine)
    IN  IF t # 0 /\ n # 0 THEN Some(SubSeq(rest, 1, n - 1)) ELSE None

\* FUSION_REPLAN in answer raises TypeError when answer is None.
parse_fusion_output(raw) ==
    LET thought == extract_thought(raw)
        ans == extract_answer(raw)
    IN  IF ans.none
        THEN [raises |-> TRUE, thought |-> thought, answer |-> ans,
              is_replan |-> FALSE]
        ELSE [raises |-> FALSE, thought |-> thought, answer |-> ans,
              is_replan |-> (\E k \in 1..Len(ans.text) :
                                ans.text[k] = FUSION_REPLAN)]

\* fuse without the override of the final iteration
fuse_keeps_flag(raw, is_final) ==
    LET r == parse_fusion_output(raw)
    IN  [raises    |-> r.raises,
         thought   |-> r.thought,
         answer    |-> r.answer,
         is_replan |-> r.is_replan,
         prompt    |-> IF is_final THEN "fusion_prompt_final"
                                   ELSE "fusion_prompt"]

\* fuse that always takes the regular prompt
fuse_regular_prompt(raw, is_final) ==
    LET r == parse_fusion_output(raw)
    IN  [raises    |-> r.raises,
         thought   |-> r.thought,
         answer    |-> r.answer,
         is_replan |-> IF is_final THEN FALSE ELSE r.is_replan,
         prompt    |-> "fusion_prompt"]

\* Agent.fuse once the fuser replied with raw
fuse(raw, is_final) ==
    LET r == parse_fusion_output(raw)
    IN  [raises    |-> r.raises,
         thought   |-> r.thought,
         answer    |-> r.answer,
         is_replan |-> IF is_final THEN FALSE ELSE r.is_replan,
         prompt    |-> IF is_final THEN "fusion_prompt_final"
                                   ELSE "fusion_prompt"]

\* ------------------------------------------------------------------------
\* gateway.py: contexts and scratchpad
\* ------------------------------------------------------------------------

\* Task.get_thought_action_observation of a non-fuse task, in the form the
\* scratchpad uses (with the thought) and in the form the replan context
\* uses (with the action index).
ScratchText(t) == CASE t = "a" -> "thought-action-observation a"
                    [] t = "b" -> "thought-action-observation b"

ContextText(t) == CASE t = "a" -> "1. action-observation a"
                    [] t = "b" -> "2. action-observation b"

generate_context_for_replanner(ts, thought) ==
    [previous_plan_and_observations |-> [k \in 1..Len(ts) |-> ContextText(ts[k])],
     fusion_thought |-> thought]

\* only the latest context, then the marker of the current plan
format_contexts_latest(cs) ==
    IF cs = <<>> THEN <<[label |-> "Current Plan:", context |-> <<>>]>>
    ELSE <<[label |-> "Previous Plan:", context |-> <<cs[Len(cs)]>>],
           [label |-> "Current Plan:", context |-> <<>>]>>

\* One block per context, then the marker of the current plan.
format_contexts(cs) ==
    [k \in 1..(Len(cs) + 1) |->
        IF k <= Len(cs)
        THEN [label |-> "Previous Plan:", context |-> <<cs[k]>>]
        ELSE [label |-> "Current Plan:", context |-> <<>>]]

\* str.strip() over pieces: blank lines at both ends go.
RECURSIVE strip(_)
strip(s) ==
    IF s = <<>> THEN s
    ELSE IF Head(s) = BlankLine THEN strip(Tail(s))
    ELSE IF s[Len(s)] = BlankLine THEN strip(SubSeq(s, 1, Len(s) - 1))
    ELSE s

\* inputs while it has no "context" key
NoContext == <<>>

\* a local that was never assigned
Unbound == [none |-> TRUE, text |-> <<"unbound">>]

\* ------------------------------------------------------------------------
\* Bounds and input pools of the loop
\* ------------------------------------------------------------------------

\* Largest max_retries an Agent is built with.
MaxRetriesBound == 3

\* What the planner and the scheduler hand back: the non-fuse tasks.
TaskPool == { <<>>, <<"a">>, <<"a", "b">> }

\* What the fuser may reply.
ReplyPool ==
    { <<ThoughtOpen, "d", BlankLine, FinishOpen, "4", "2", ")">>,
      <<ThoughtOpen, "d", BlankLine, FinishOpen, "f", "(", "4", ")", ")">>,
      <<ThoughtOpen, "d", BlankLine, FinishOpen, ReplanWord, ")">>,
      <<ThoughtOpen, "d", BlankLine, ReplanWord>>,
      <<"x">>,
      <<FinishOpen, "4">>,
      <<"x", ReplanWord>> }

\* ------------------------------------------------------------------------
\* Agent.acall as a state machine
\* ------------------------------------------------------------------------

ParserOff ==
    /\ tools = {}
    /\ matches = <<>>
    /\ graph = EmptyMap
    /\ raised = FALSE
    /\ ppc = "off"

FusionOff ==
    /\ raw_answer = <<>>
    /\ fusion = None
    /\ fpc = "off"

LoopOff ==
    /\ max_retries = 0
    /\ opc = "off"
    /\ i = 0
    /\ contexts = <<>>
    /\ inputs = NoContext
    /\ tasks = <<>>
    /\ agent_scratchpad = <<>>
    /\ fusion_thought = None
    /\ answer = Unbound
    /\ is_replan = FALSE
    /\ planner_calls = <<>>
    /\ fuser_calls = <<>>
    /\ output = Unbound

CallerOff ==
    /\ cpc = "off"
    /\ tpc = "off"
    /\ result = <<>>
    /\ returned = Unbound

SchedulerOff ==
    /\ streaming = FALSE
    /\ plan = <<>>
    /\ arrived = 0
    /\ remaining = <<>>
    /\ status = <<>>
    /\ invoked = <<>>
    /\ error = <<>>
    /\ spc = "off"

\* An Agent built with max_retries = R, neither __call__ nor acall entered
\* yet.
Init ==
    /\ ParserOff
    /\ FusionOff
    /\ SchedulerOff
    /\ cpc = "idle"
    /\ tpc = "none"
    /\ result = <<>>
    /\ returned = Unbound
    /\ max_retries \in 0..MaxRetriesBound
    /\ opc = "start"
    /\ i = 0
    /\ contexts = <<>>
    /\ inputs = NoContext
    /\ tasks = <<>>
    /\ agent_scratchpad = <<>>
    /\ fusion_thought = None
    /\ answer = Unbound
    /\ is_replan = FALSE
    /\ planner_calls = <<>>
    /\ fuser_calls = <<>>
    /\ output = Unbound

\* a local answer that has a value before the loop
answer_defaulted(local) == FALSE

\* return {self.output_key: answer} reads a local that the loop body never
\* assigned
answer_unbound(local) == local = Unbound

\* acall is entered; with an empty range the loop body never runs and the
\* return statement reads the unassigned local answer.
AcallEnter ==
    /\ opc = "start"
    /\ IF max_retries = 0
       THEN IF answer_unbound(answer)
            THEN opc' = "raised" /\ UNCHANGED output
            ELSE opc' = "done" /\ output' = answer
       ELSE opc' = "planning" /\ UNCHANGED output
    /\ UNCHANGED <<max_retries, i, contexts, inputs, tasks, agent_scratchpad,
                   fusion_thought, answer, is_replan, planner_calls,
                   fuser_calls>>
    /\ UNCHANGED <<pvars, fvars, cvars, svars>>

\* a planner that is never told it is replanning
plans_afresh(is_first_iter) == FALSE

\* is_replan = not is_first_iter
not_first_iter(is_first_iter) == ~is_first_iter

\* await self.planner.plan(inputs, is_replan = not is_first_iter); the log
\* keeps what the planner was handed and the tasks it gave back.
Plan ==
    /\ opc = "planning"
    /\ \E ts \in TaskPool :
          /\ tasks' = ts
          /\ planner_calls' = Append(planner_calls,
                                     [i |-> i,
                                      is_replan |-> not_first_iter(i = 0),
                                      context |-> inputs,
                                      tasks |-> ts])
    /\ opc' = "executing"
    /\ UNCHANGED <<max_retries, i, contexts, inputs, agent_scratchpad,
                   fusion_thought, answer, is_replan, fuser_calls, output>>
    /\ UNCHANGED <<pvars, fvars, cvars, svars>>

\* task_processor.set_tasks(tasks); await task_processor.schedule()
Schedule ==
    /\ opc = "executing"
    /\ opc' = "fusing"
    /\ UNCHANGED <<max_retries, i, contexts, inputs, tasks, agent_scratchpad,
                   fusion_thought, answer, is_replan, planner_calls,
                   fuser_calls, output>>
    /\ UNCHANGED <<pvars, fvars, cvars, svars>>

\* a loop that goes on whatever the flag says
never_breaks(replan) == FALSE

\* if not is_replan: break
loop_breaks(replan) == ~replan

\* The scratchpad is extended, the fuser replies raw, and the loop either
\* raises, breaks and returns, or records a context and goes on.
FuseWith(raw) ==
    LET is_final_iter == (i = max_retries - 1)
        scratch == strip(agent_scratchpad \o <<BlankLine>>
                         \o [k \in 1..Len(tasks) |-> ScratchText(tasks[k])])
        r == fuse(raw, is_final_iter)
        call == [i |-> i, is_final |-> is_final_iter, prompt |-> r.prompt,
                 agent_scratchpad |-> scratch, raw_answer |-> raw,
                 raises |-> r.raises, thought |-> r.thought,
                 answer |-> r.answer, is_replan |-> r.is_replan]
        context == generate_context_for_replanner(tasks, r.thought)
    IN  /\ agent_scratchpad' = scratch
        /\ fuser_calls' = Append(fuser_calls, call)
        /\ IF r.raises
           THEN /\ opc' = "raised"
                /\ UNCHANGED <<i, contexts, inputs, fusion_thought, answer,
                               is_replan, output>>
           ELSE /\ fusion_thought' = r.thought
                /\ answer' = r.answer
                /\ is_replan' = r.is_replan
                /\ IF loop_breaks(r.is_replan)
                   THEN /\ opc' = "done"
                        /\ output' = r.answer
                        /\ UNCHANGED <<i, contexts, inputs>>
                   ELSE /\ contexts' = Append(contexts, context)
                        /\ inputs' = format_contexts(Append(contexts, context))
                        /\ IF i + 1 < max_retries
                           THEN /\ i' = i + 1
                                /\ opc' = "planning"
                                /\ UNCHANGED output
                           ELSE /\ opc' = "done"
                                /\ output' = r.answer
                                /\ UNCHANGED i

Fuse ==
    /\ opc = "fusing"
    /\ \E raw \in ReplyPool : FuseWith(raw)
    /\ UNCHANGED <<max_retries, tasks, planner_calls>>
    /\ UNCHANGED <<pvars, fvars, cvars, svars>>

\* __call__: result = [], the thread running run_async is started and the
\* caller goes into thread.join().
Call ==
    /\ cpc = "idle"
    /\ opc = "start"
    /\ result' = <<>>
    /\ tpc' = "running"
    /\ cpc' = "joining"
    /\ UNCHANGED returned
    /\ UNCHANGED <<pvars, fvars, ovars, svars>>

\* run_async: run_until_complete(acall(input)) is over; what acall returned
\* is appended to result, an exception ends the thread with result as it
\* is.
RunAsyncEnd ==
    /\ tpc = "running"
    /\ opc \in {"done", "raised"}
    /\ result' = IF opc = "done" THEN Append(result, [output |-> output])
                                 ELSE result
    /\ tpc' = "finished"
    /\ UNCHANGED <<cpc, returned>>
    /\ UNCHANGED <<pvars, fvars, ovars, svars>>

\* a join that does not wait
join_skipped(thread) == TRUE

\* thread.join() returns once the thread has ended.
joined(thread) == thread = "finished"

\* __call__ after the join: result[0]["output"] is returned, or the
\* IndexError of an empty result becomes an AgentGatewayError.
CallReturn ==
    /\ cpc = "joining"
    /\ joined(tpc)
    /\ IF Len(result) >= 1
       THEN /\ cpc' = "returned"
            /\ returned' = result[1].output
       ELSE /\ cpc' = "raised"
            /\ UNCHANGED returned
    /\ UNCHANGED <<tpc, result>>
    /\ UNCHANGED <<pvars, fvars, ovars, svars>>

Next == Call \/ AcallEnter \/ Plan \/ Schedule \/ Fuse \/ RunAsyncEnd
            \/ CallReturn

Spec == Init /\ [][Next]_vars

\* ------------------------------------------------------------------------
\* Properties of the loop
\* ------------------------------------------------------------------------

\* C1: with max_retries = R >= 1 the planner is invoked at most R times, no
\* iteration beyond i = R-1 is ever started, and every fuse call of the
\* iteration i = R-1 that returns gives replan = false, whatever the reply.
ReplanBound ==
    max_retries >= 1 =>
        /\ Len(planner_calls) <= max_retries
        /\ i <= max_retries - 1
        /\ \A k \in 1..Len(planner_calls) : planner_calls[k].i <= max_retries - 1
        /\ \A k \in 1..Len(fuser_calls) :
              (fuser_calls[k].i = max_retries - 1 /\ ~fuser_calls[k].raises)
                  => ~fuser_calls[k].is_replan

\* C1 witness: the last allotted iteration was reached after a replan and
\* its fuser reply, parsed on its own, asks for a replan.
ReplanBoundWitness ==
    /\ max_retries >= 2
    /\ Len(planner_calls) = max_retries
    /\ Len(fuser_calls) = max_retries
    /\ LET last == fuser_calls[Len(fuser_calls)]
       IN  /\ last.i = max_retries - 1
           /\ ~last.raises
           /\ parse_fusion_output(last.raw_answer).is_replan
           /\ ~last.is_replan
    /\ opc = "done"

\* C2: a fuse call that returned replan = false is the last step of the
\* run: the loop is done, the output is the answer of that call and no
\* planner or fuser call follows it; every planner call after the first one
\* follows a fuse call that returned replan = true.
NoReplanMeansDone ==
    /\ \A k \in 1..Len(fuser_calls) :
          (~fuser_calls[k].raises /\ ~fuser_calls[k].is_replan)
              => /\ k = Len(fuser_calls)
                 /\ Len(planner_calls) = k
                 /\ opc = "done"
                 /\ output = fuser_calls[k].answer
    /\ \A k \in 2..Len(planner_calls) :
          /\ k - 1 <= Len(fuser_calls)
          /\ ~fuser_calls[k - 1].raises
          /\ fuser_calls[k - 1].is_replan

\* C2 witness: a run that replanned once and then finished with the answer
\* of its second fuse call.
NoReplanMeansDoneWitness ==
    /\ opc = "done"
    /\ Len(fuser_calls) = 2
    /\ Len(planner_calls) = 2
    /\ max_retries > 2
    /\ fuser_calls[1].is_replan
    /\ ~fuser_calls[2].is_replan
    /\ output = Some(<<"4", "2">>)

\* A reply with neither a "Thought: " nor an "Action: Finish(".
Unstructured(raw) ==
    FirstPos(raw, ThoughtOpen) = 0 /\ FirstPos(raw, FinishOpen) = 0

\* C13: a fuser reply without the Thought:/Action: structure in an
\* iteration i < R-1 ends the run without a replan: that fuse call is the
\* last step, it does not report replan = true, and no planner call follows
\* it.
UnstructuredReplyEndsRun ==
    \A k \in 1..Len(fuser_calls) :
        (fuser_calls[k].i < max_retries - 1
            /\ Unstructured(fuser_calls[k].raw_answer))
        => /\ k = Len(fuser_calls)
           /\ Len(planner_calls) = k
           /\ opc \in {"done", "raised"}
           /\ ~fuser_calls[k].is_replan

\* The replan context that iteration j of the run leaves behind, read off
\* the two logs.
ContextOfIteration(j) ==
    [previous_plan_and_observations |->
         [m \in 1..Len(planner_calls[j].tasks) |->
              ContextText(planner_calls[j].tasks[m])],
     fusion_thought |-> fuser_calls[j].thought]

\* C14: the k-th planner call belongs to iteration k-1; it has
\* is_replan = false exactly when the iteration is 0 and no replan context
\* exactly when the iteration is 0; in an iteration n >= 1 it has
\* is_replan = true and its context holds the contexts of all n previous
\* iterations.
PlannerSeesAllPreviousIterations ==
    \A k \in 1..Len(planner_calls) :
        LET c == planner_calls[k]
        IN  /\ c.i = k - 1
            /\ (c.i = 0) <=> ~c.is_replan
            /\ (c.i = 0) <=> (c.context = NoContext)
            /\ c.i >= 1 =>
                  /\ c.is_replan
                  /\ Len(c.context) = c.i + 1
                  /\ \A j \in 1..c.i :
                        c.context[j].context = <<ContextOfIteration(j)>>

\* C14 witness: a third planner call whose context holds two previous
\* iterations with different plans.
PlannerSeesAllPreviousIterationsWitness ==
    /\ Len(planner_calls) = 3
    /\ planner_calls[3].is_replan
    /\ Len(planner_calls[3].context) = 3
    /\ planner_calls[1].tasks # planner_calls[2].tasks
    /\ planner_calls[1].tasks # <<>>

\* The fuse calls that returned replan = true.
Replans == {k \in 1..Len(fuser_calls) :
               ~fuser_calls[k].raises /\ fuser_calls[k].is_replan}

\* After k replans the list holds the k contexts in iteration order and the
\* context for the next planner call is k "Previous Plan:" blocks in that
\* order and then one "Current Plan:" marker.
ContextsInOrder ==
    /\ Len(contexts) = Cardinality(Replans)
    /\ \A j \in 1..Len(contexts) : contexts[j] = ContextOfIteration(j)
    /\ Len(contexts) >= 1 =>
          /\ Len(inputs) = Len(contexts) + 1
          /\ \A j \in 1..Len(contexts) :
                /\ inputs[j].label = "Previous Plan:"
                /\ inputs[j].context = <<contexts[j]>>
          /\ inputs[Len(inputs)].label = "Current Plan:"
          /\ inputs[Len(inputs)].context = <<>>

\* No step changes or removes an entry of the list.
ContextsKept ==
    /\ Len(contexts') >= Len(contexts)
    /\ \A j \in 1..Len(contexts) : contexts'[j] = contexts[j]

\* C15: after k replans the context list holds exactly k entries in
\* iteration order, an entry once in the list is never changed or removed,
\* and the context handed to the next planner call is k blocks labelled
\* "Previous Plan:" in that order followed by exactly one "Current Plan:"
\* marker.
ContextsAppendOnly == []ContextsInOrder /\ [][ContextsKept]_vars

\* C15 witness: two replans with different contexts, the third planner call
\* about to be made.
ContextsAppendOnlyWitness ==
    /\ opc = "planning"
    /\ Len(contexts) = 2
    /\ contexts[1] # contexts[2]
    /\ Len(inputs) = 3

\* C20: __call__ has returned or raised only when the background thread
\* has ended and the loop with it; it returns the output of the loop when
\* the loop completed, and raises AgentGatewayError, returning no value,
\* when the loop ended with an exception.
CallWaitsForThread ==
    cpc \in {"returned", "raised"} =>
        /\ tpc = "finished"
        /\ opc \in {"done", "raised"}
        /\ opc = "done" => (cpc = "returned" /\ returned = output)
        /\ opc = "raised" => (cpc = "raised" /\ returned = Unbound)

\* C20 witness: the loop replanned once and then ended with an exception
\* of the second fuse call, and __call__ raised.
CallWaitsForThreadWitness ==
    /\ cpc = "raised"
    /\ opc = "raised"
    /\ Len(fuser_calls) = 2
    /\ fuser_calls[2].raises

\* The scratch text of the non-fuse tasks that the k-th planner call gave
\* back.
ScratchOfIteration(k) ==
    [m \in 1..Len(planner_calls[k].tasks) |->
         ScratchText(planner_calls[k].tasks[m])]

\* C22: the scratchpad handed to the fuser in an iteration holds the text
\* of the non-fuse tasks of that iteration's own graph and nothing of the
\* tasks of earlier iterations.
ScratchpadOfOwnIteration ==
    \A k \in 1..Len(fuser_calls) :
        fuser_calls[k].agent_scratchpad = ScratchOfIteration(k)

\* C23: a fuse call uses fusion_prompt_final exactly when its iteration is
\* R-1 and fusion_prompt in every earlier iteration; with R = 1 the only
\* call uses the final one.
FinalPromptInLastIteration ==
    /\ \A k \in 1..Len(fuser_calls) :
          /\ fuser_calls[k].i = k - 1
          /\ fuser_calls[k].prompt =
                 IF fuser_calls[k].i = max_retries - 1
                 THEN "fusion_prompt_final" ELSE "fusion_prompt"
    /\ (max_retries = 1 /\ Len(fuser_calls) >= 1) =>
          /\ Len(fuser_calls) = 1
          /\ fuser_calls[1].prompt = "fusion_prompt_final"

\* C23 witness: a run of R = 3 whose first two fuse calls had the regular
\* prompt and whose third had the final one.
FinalPromptInLastIterationWitness ==
    /\ max_retries = 3
    /\ Len(fuser_calls) = 3
    /\ fuser_calls[1].prompt = "fusion_prompt"
    /\ fuser_calls[2].prompt = "fusion_prompt"
    /\ fuser_calls[3].prompt = "fusion_prompt_final"

\* Planner and fuser calls alternate, one of each per iteration; a
\* returned output belongs to a run of k >= 1 iterations and is the answer
\* of the k-th fuser reply; with max_retries = 0 nothing is called and no
\* output is returned.
CallsPairUp ==
    /\ Len(planner_calls) =
           Len(fuser_calls) + IF opc \in {"executing", "fusing"} THEN 1 ELSE 0
    /\ \A k \in 1..Len(planner_calls) : planner_calls[k].i = k - 1
    /\ \A k \in 1..Len(fuser_calls) : fuser_calls[k].i = k - 1
    /\ opc = "done" =>
          /\ max_retries >= 1
          /\ Len(fuser_calls) >= 1
          /\ Len(planner_calls) = Len(fuser_calls)
          /\ LET last == fuser_calls[Len(fuser_calls)]
             IN  /\ ~last.raises
                 /\ output = last.answer
                 /\ output = parse_fusion_output(last.raw_answer).answer
    /\ max_retries = 0 =>
          /\ opc # "done"
          /\ output = Unbound
          /\ planner_calls = <<>>
          /\ fuser_calls = <<>>

\* A planner call is the step from planning to executing, the scheduler
\* run the step from executing to fusing, a fuser call a step from fusing.
CallsInTurn ==
    /\ planner_calls' # planner_calls =>
          (opc = "planning" /\ opc' = "executing")
    /\ (opc' = "fusing" /\ opc # "fusing") => opc = "executing"
    /\ fuser_calls' # fuser_calls => opc = "fusing"

\* C30: whenever acall returns an output the planner and the fuser were
\* each invoked the same number k >= 1 of times, in the strict order
\* planner call, scheduler run, fuser call, and the output is the answer
\* extracted from the k-th fuser reply; with max_retries = 0 no output is
\* returned.
OutputIsTheLastAnswer == []CallsPairUp /\ [][CallsInTurn]_vars

\* C30 witness: acall returned the answer of its third fuser reply.
OutputIsTheLastAnswerWitness ==
    /\ opc = "done"
    /\ Len(planner_calls) = 3
    /\ Len(fuser_calls) = 3
    /\ output = Some(<<"4", "2">>)

\* ------------------------------------------------------------------------
\* GatewayPlanParser.parse as a state machine: one plan text is parsed.
\* ------------------------------------------------------------------------

ParseInit ==
    /\ tools \in Registries
    /\ \E n \in 0..MaxRecords, scheme \in NumberingSchemes :
          \E names \in [1..n -> PlanNames], args \in [1..n -> ArgPool] :
              matches = [k \in 1..n |->
                            [thought |-> PlanThought,
                             idx     |-> OrigId(scheme, k),
                             name    |-> names[k],
                             args    |-> args[k]]]
    /\ graph = EmptyMap
    /\ raised = FALSE
    /\ ppc = "planned"
    /\ FusionOff
    /\ LoopOff
    /\ CallerOff
    /\ SchedulerOff

Parse ==
    /\ ppc = "planned"
    /\ LET r == parse(tools, matches)
       IN  /\ graph' = r.graph
           /\ raised' = r.raised
    /\ ppc' = "parsed"
    /\ UNCHANGED <<tools, matches, fvars, ovars, cvars, svars>>

ParseNext == Parse

SpecParse == ParseInit /\ [][ParseNext]_vars

\* ------------------------------------------------------------------------
\* Properties of the parsed graph
\* ------------------------------------------------------------------------

\* parse returned a graph
Parsed == ppc = "parsed" /\ ~raised

\* The argument string a task was built from.
ArgString(task) == IF task.args = <<>> THEN <<>> ELSE task.args[1]

FuseIds == {idx \in DOMAIN graph : graph[idx].is_fuse}

SummarizeIds == {idx \in DOMAIN graph : graph[idx].thought = SummaryThought}

\* The tasks that come from a record of the plan text.
PlannedIds == {idx \in DOMAIN graph : graph[idx].thought = PlanThought}

\* Position of the first fuse record in the plan text, 0 when there is none.
FirstFuseRecord ==
    IF \E k \in 1..Len(matches) : matches[k].name = FuseName
    THEN CHOOSE k \in 1..Len(matches) :
             /\ matches[k].name = FuseName
             /\ \A j \in 1..(k - 1) : matches[j].name # FuseName
    ELSE 0

\* A placeholder that refers to n stands at some position of s: "$", an
\* optional "{", then a whole run of digits that reads n.
HasPlaceholder(s, n) ==
    \E k \in 1..Len(s) :
        /\ s[k] = "$"
        /\ LET b == IF k + 1 <= Len(s) /\ s[k + 1] = "{" THEN k + 2 ELSE k + 1
           IN  \E e \in b..Len(s) :
                   /\ \A j \in b..e : s[j] \in Digits
                   /\ e + 1 <= Len(s) => s[e + 1] \notin Digits
                   /\ StrToInt(SubSeq(s, b, e)) = n

\* C3: in every graph parse returns, each task's dependency ids lie in
\* 1..id-1, so no task depends on itself or on a later task.
Acyclicity ==
    Parsed =>
        \A idx \in DOMAIN graph :
            /\ graph[idx].idx = idx
            /\ \A d \in graph[idx].dependencies : 1 <= d /\ d < idx

\* C3 witness: a graph with a task whose argument names its own id and a
\* task whose argument names a later id.
AcyclicityWitness ==
    /\ Parsed
    /\ \E idx \in DOMAIN graph :
          ~graph[idx].is_fuse /\ HasPlaceholder(ArgString(graph[idx]), idx)
    /\ \E idx \in DOMAIN graph :
          /\ ~graph[idx].is_fuse
          /\ \E n \in DOMAIN graph :
                n > idx /\ HasPlaceholder(ArgString(graph[idx]), n)

\* C4: a graph holds at most one fuse task, that task has the largest id,
\* and the records after the first fuse record of the text yield no task.
OneTerminalLast ==
    Parsed =>
        /\ Cardinality(FuseIds) <= 1
        /\ \A f \in FuseIds : \A idx \in DOMAIN graph : idx <= f
        /\ IF FirstFuseRecord = 0
           THEN /\ FuseIds = {}
                /\ Cardinality(PlannedIds) = Len(matches)
           ELSE /\ Cardinality(FuseIds) = 1
                /\ Cardinality(PlannedIds) = FirstFuseRecord

\* C4 witness: the text holds a record, then its first fuse record, then a
\* second fuse record.
OneTerminalLastWitness ==
    /\ Parsed
    /\ FirstFuseRecord > 1
    /\ \E k \in (FirstFuseRecord + 1)..Len(matches) : matches[k].name = FuseName
    /\ Cardinality(DOMAIN graph) >= 2

\* C5: whatever ids the planner wrote, the ids of the graph are 1, 2, ..., n,
\* the tasks that come from records keep the order of the records, and each
\* summarize step has the id right after a search step.
ContiguousIds ==
    Parsed =>
        /\ DOMAIN graph = 1..Cardinality(DOMAIN graph)
        /\ \A idx \in DOMAIN graph : graph[idx].idx = idx
        /\ \A idx \in PlannedIds :
              LET k == Cardinality({j \in PlannedIds : j <= idx})
              IN  k <= Len(matches) /\ graph[idx].name = matches[k].name
        /\ \A q \in SummarizeIds :
              /\ graph[q].name = SummarizeName
              /\ q - 1 \in PlannedIds
              /\ IsSearchName(graph[q - 1].name)

\* C5 witness: a text whose written ids are not 1, 2, 3 and whose graph
\* holds a summarize step between two tasks that come from records.
ContiguousIdsWitness ==
    /\ Parsed
    /\ Len(matches) >= 3
    /\ \E k \in 1..Len(matches) : matches[k].idx # IntToStr(k)
    /\ \E q \in SummarizeIds : q + 1 \in PlannedIds
    /\ Cardinality(DOMAIN graph) > Len(matches)

\* The written ids are the positions of the records.
SequentialPlan == \A k \in 1..Len(matches) : matches[k].idx = IntToStr(k)

SearchRecords == {k \in 1..Len(matches) : IsSearchName(matches[k].name)}

\* C6: when the only search record of a sequentially numbered plan stands at
\* position p, not second-to-last, task p+1 is a summarize step and every
\* placeholder of a later step that names an original id n >= p+1 names
\* n+1 in the graph.
SummarizeShiftsReferences ==
    Parsed =>
        \A p \in 1..Len(matches) :
            ( /\ SequentialPlan
              /\ SearchRecords = {p}
              /\ p # Len(matches) - 1
              /\ FirstFuseRecord = 0 \/ FirstFuseRecord > p )
            => /\ p \in PlannedIds
               /\ IsSearchName(graph[p].name)
               /\ p + 1 \in SummarizeIds
               /\ \A j \in (p + 1)..Len(matches) :
                     j + 1 \in DOMAIN graph =>
                        \A n \in (p + 1)..Len(matches) :
                            HasPlaceholder(matches[j].args, n)
                                => HasPlaceholder(ArgString(graph[j + 1]), n + 1)

\* The text that ends a summarize prompt, from the fixed words in front of
\* the placeholder the step was created with.
PromptLead == " ONLY using the following context: "

PromptTail == ". DO NOT include any other rationale."

\* C7: the only argument of each summarize step q is a prompt whose
\* placeholder names q-1, the search step in front of it.
SummarizeReadsItsSearch ==
    Parsed =>
        \A q \in SummarizeIds :
            /\ Len(graph[q].args) = 1
            /\ LET s == graph[q].args[1]
                   k == FirstPos(s, PromptLead)
               IN  /\ k # 0
                   /\ SubSeq(s, k + 1, Len(s))
                          = <<"$">> \o IntToStr(q - 1) \o <<PromptTail>>

\* C8: the fuse task n of a graph depends on exactly 1..n-1, which are all
\* the other tasks of the graph, whatever its argument string holds.
FuseWaitsForAll ==
    Parsed =>
        \A f \in FuseIds :
            /\ graph[f].dependencies = 1..(f - 1)
            /\ graph[f].dependencies = DOMAIN graph \ {f}

\* C8 witness: a fuse task behind a summarize step, written with an argument
\* that names one task only.
FuseWaitsForAllWitness ==
    /\ Parsed
    /\ \E f \in FuseIds :
          /\ f >= 4
          /\ SummarizeIds # {}
          /\ HasPlaceholder(ArgString(graph[f]), 2)

\* C9: for a task n that is not the fuse task and a prior id d in 1..n-1,
\* d is a dependency exactly when a placeholder naming d stands in the
\* rewritten argument string; nothing else is a dependency.
DependenciesAreSyntactic ==
    Parsed =>
        \A idx \in DOMAIN graph \ FuseIds :
            /\ graph[idx].dependencies \subseteq 1..(idx - 1)
            /\ \A d \in 1..(idx - 1) :
                  d \in graph[idx].dependencies
                      <=> HasPlaceholder(ArgString(graph[idx]), d)

\* C9 witness: one task depends on a prior task named in braces, another
\* names only an id that is not prior and depends on nothing.
DependenciesAreSyntacticWitness ==
    /\ Parsed
    /\ \E idx \in DOMAIN graph \ FuseIds :
          /\ graph[idx].dependencies = {2}
          /\ ArgString(graph[idx]) = <<"$", "{", "2", "}">>
    /\ \E idx \in DOMAIN graph \ FuseIds :
          /\ graph[idx].dependencies = {}
          /\ \E n \in DOMAIN graph :
                n >= idx /\ HasPlaceholder(ArgString(graph[idx]), n)

\* C21: a plan text without any record is parsed, without an error, into
\* the empty graph: no task, no fuse task, no summarize step.
EmptyPlanEmptyGraph ==
    (ppc = "parsed" /\ matches = <<>>) =>
        /\ ~raised
        /\ DOMAIN graph = {}
        /\ FuseIds = {}
        /\ SummarizeIds = {}

\* C21 witness: a plan text without records was parsed.
EmptyPlanEmptyGraphWitness ==
    /\ ppc = "parsed"
    /\ Len(matches) = 0
    /\ ~raised
    /\ Cardinality(DOMAIN graph) = 0

\* C25: every summarize step q of the graph depends on exactly q-1, the
\* search step it was inserted after.
SummarizeDependsOnItsSearch ==
    Parsed =>
        \A q \in SummarizeIds :
            /\ q - 1 \in PlannedIds
            /\ IsSearchName(graph[q - 1].name)
            /\ graph[q].dependencies = {q - 1}

\* Record p is a search record that is given a summarize step.
Summarized(p) == IsSearchName(matches[p].name) /\ p # Len(matches) - 1

\* The id that the task of record k carries in the graph: one more for
\* every summarize step inserted in front of it.
NewId(k) == k + Cardinality({p \in 1..(k - 1) : Summarized(p)})

\* What the remap table holds for the id of record n of a sequentially
\* numbered plan.
Remapped(n) == IF Summarized(n) THEN NewId(n) + 1 ELSE NewId(n)

\* The braced placeholder of n stands in s.
HasBraced(s, n) ==
    \E k \in 1..(Len(s) - Len(IntToStr(n)) - 2) :
        SubSeq(s, k, k + Len(IntToStr(n)) + 2)
            = <<"$", "{">> \o IntToStr(n) \o <<"}">>

\* The tasks of the graph that come from a record behind record n and are
\* no fuse task, as record positions.
LaterSteps(n) ==
    {j \in (n + 1)..Len(matches) :
        NewId(j) \in DOMAIN graph /\ ~graph[NewId(j)].is_fuse}

\* C26: in a sequentially numbered plan a later step that refers to the
\* original id n in braces refers, in the graph, to the id the remap table
\* holds for n, as it would with the bare form, and depends on that task.
BracedReferencesRewritten ==
    (Parsed /\ SequentialPlan) =>
        \A n \in 1..Len(matches) :
            \A j \in LaterSteps(n) :
                HasBraced(matches[j].args, n) =>
                    /\ HasBraced(ArgString(graph[NewId(j)]), Remapped(n))
                    /\ Remapped(n) \in graph[NewId(j)].dependencies

\* C27: in a sequentially numbered plan, when search record p was given a
\* summarize step, every later step whose argument named p names the
\* summarize step in the graph and depends on it and not on the search
\* step.
LaterStepsReadTheSummary ==
    (Parsed /\ SequentialPlan) =>
        \A p \in 1..Len(matches) :
            Summarized(p) =>
                \A j \in LaterSteps(p) :
                    HasPlaceholder(matches[j].args, p) =>
                        /\ HasPlaceholder(ArgString(graph[NewId(j)]),
                                          NewId(p) + 1)
                        /\ NewId(p) + 1 \in graph[NewId(j)].dependencies
                        /\ NewId(p) \notin graph[NewId(j)].dependencies

\* C28: every dependency id of every task of a returned graph is the id of
\* a task of that graph.
GraphIsClosed ==
    Parsed =>
        \A idx \in DOMAIN graph : graph[idx].dependencies \subseteq DOMAIN graph

\* C28 witness: a graph with a fuse task, a summarize step, a step that
\* depends on an earlier one, and a step whose argument names a later id.
GraphIsClosedWitness ==
    /\ Parsed
    /\ FuseIds # {}
    /\ SummarizeIds # {}
    /\ \E idx \in DOMAIN graph \ FuseIds : graph[idx].dependencies # {}
    /\ \E idx \in PlannedIds \ FuseIds :
          \E n \in DOMAIN graph :
              n > idx /\ HasPlaceholder(ArgString(graph[idx]), n)

\* The records the parser reads: all of them, or those up to the first
\* fuse record.
RecordsRead ==
    1..(IF FirstFuseRecord = 0 THEN Len(matches) ELSE FirstFuseRecord)

\* C19: a record whose operation name is neither registered nor "fuse" is
\* fatal to its own task only: parsing does not fail as a whole and every
\* other record that is read still yields its task.
UnknownToolFailsOneTask ==
    (ppc = "parsed"
        /\ \E k \in RecordsRead : matches[k].name \notin tools \cup {FuseName})
    => /\ ~raised
       /\ \A k \in RecordsRead :
             matches[k].name \in tools \cup {FuseName}
                 => \E idx \in PlannedIds : graph[idx].name = matches[k].name

\* ------------------------------------------------------------------------
\* Agent._parse_fusion_output as a state machine: one reply is parsed.
\* ------------------------------------------------------------------------

\* Largest number of pieces in a reply.
MaxReplyLen == 5

ReplyPieces == {FinishOpen, ReplanWord, ThoughtOpen, BlankLine, "(", ")", "x"}

FusionInit ==
    /\ \E n \in 0..MaxReplyLen : raw_answer \in [1..n -> ReplyPieces]
    /\ fusion = None
    /\ fpc = "replied"
    /\ ParserOff
    /\ LoopOff
    /\ CallerOff
    /\ SchedulerOff

ParseFusion ==
    /\ fpc = "replied"
    /\ fusion' = parse_fusion_output(raw_answer)
    /\ fpc' = "parsed"
    /\ UNCHANGED <<raw_answer, pvars, ovars, cvars, svars>>

FusionNext == ParseFusion

SpecFusion == FusionInit /\ [][FusionNext]_vars

\* ------------------------------------------------------------------------
\* Properties of the parsed reply
\* ------------------------------------------------------------------------

\* Nesting depth after the piece at position j, counted from just behind
\* the "Action: Finish(" at position a.
DepthAfter(s, a, j) ==
    1 + Cardinality({m \in (a + 1)..j : s[m] = "(" \/ s[m] = FinishOpen})
      - Cardinality({m \in (a + 1)..j : s[m] = ")"})

\* The positions behind a where the depth is back at zero.
ClosingPositions(s, a) == {j \in (a + 1)..Len(s) : DepthAfter(s, a, j) = 0}

\* C10: when the reply holds "Action: Finish(" and behind it a ")" that
\* brings the depth back to zero, the answer is exactly the text between
\* the two, parentheses of the payload included.
FinishPayloadExtracted ==
    fpc = "parsed" =>
        LET a == FirstPos(raw_answer, FinishOpen)
            closing == ClosingPositions(raw_answer, a)
        IN  (a # 0 /\ closing # {}) =>
                LET j == CHOOSE c \in closing : \A d \in closing : c <= d
                IN  /\ ~fusion.answer.none
                    /\ fusion.answer.text = SubSeq(raw_answer, a + 1, j - 1)

\* C10 witness: a payload that holds a pair of parentheses of its own, with
\* text left behind the matching parenthesis.
FinishPayloadExtractedWitness ==
    /\ fpc = "parsed"
    /\ ~fusion.answer.none
    /\ FirstPos(raw_answer, FinishOpen) # 0
    /\ \E k \in 1..Len(fusion.answer.text) : fusion.answer.text[k] = "("
    /\ \E k \in 1..Len(fusion.answer.text) : fusion.answer.text[k] = ")"
    /\ FirstPos(raw_answer, FinishOpen) + Len(fusion.answer.text) + 1
           < Len(raw_answer)

\* The reply holds no "Action: Finish(".
NoFinish(raw) == FirstPos(raw, FinishOpen) = 0

\* The reply holds the word "Replan" somewhere.
HasReplan(raw) == FirstPos(raw, ReplanWord) # 0

\* C11: a reply without "Action: Finish(" that holds the word "Replan", at
\* whatever position, is parsed into the fixed clarification string as the
\* answer together with replan = true.
ReplanWordAsksForReplan ==
    (fpc = "parsed" /\ NoFinish(raw_answer) /\ HasReplan(raw_answer)) =>
        /\ ~fusion.raises
        /\ fusion.answer = Some(Clarification)
        /\ fusion.is_replan

\* C12: a reply with neither "Action: Finish(" nor the word "Replan" is
\* parsed into an undefined or empty answer together with replan = false.
PlainReplyIsNoReplan ==
    (fpc = "parsed" /\ NoFinish(raw_answer) /\ ~HasReplan(raw_answer)) =>
        /\ ~fusion.raises
        /\ (fusion.answer.none \/ fusion.answer.text = <<>>)
        /\ ~fusion.is_replan

\* The reply holds "Action: Finish(" and behind it the ")" that closes it.
WellFormedFinish(raw) ==
    /\ FirstPos(raw, FinishOpen) # 0
    /\ ClosingPositions(raw, FirstPos(raw, FinishOpen)) # {}

\* C24: a reply with a well-formed "Action: Finish(<payload>)" is parsed
\* with replan = false whatever the payload holds, the word "Replan"
\* included.
FinishMeansNoReplan ==
    (fpc = "parsed" /\ WellFormedFinish(raw_answer)) =>
        /\ ~fusion.raises
        /\ ~fusion.is_replan

\* C29: parsing a reply never raises, whether its "Action: Finish(" is
\* closed or not: a thought, an answer and a boolean replan flag come back.
ParsingNeverRaises ==
    fpc = "parsed" =>
        /\ ~fusion.raises
        /\ fusion.is_replan \in BOOLEAN

\* ------------------------------------------------------------------------
\* The Scheduler over one task graph (spec.md 4.2), batch and streaming
\* ------------------------------------------------------------------------

\* Largest number of tasks in a graph.
MaxTasks == 3

Terminal == {"completed", "failed", "skipped"}

\* The tasks that name t among their dependencies.
Dependents(g, t) == {u \in DOMAIN g : t \in g[u].deps}

\* Dependents, their dependents and so on; dependencies have smaller ids.
RECURSIVE TransitiveDependents(_, _)
TransitiveDependents(g, t) ==
    Dependents(g, t)
        \cup UNION {TransitiveDependents(g, u) : u \in Dependents(g, t)}

\* a failure that skips nothing
skips_nothing(g, t) == {}

\* a failure that skips the direct dependents only
skips_direct_dependents(g, t) == Dependents(g, t)

\* On failure every transitive dependent is marked skipped.
skipped_on_failure(g, t) == TransitiveDependents(g, t)

\* a task that is ready whatever its count
ready_at_once(count) == TRUE

\* A task enters the ready set when its count reaches zero.
enters_ready(count) == count = 0

\* What the scheduler notes for task t when it is handed the task while st
\* holds the states of the tasks it already has: skipped below a failure,
\* else ready or pending by the count of dependencies not yet completed.
StatusOnArrival(g, st, t) ==
    LET count == Cardinality({d \in g[t].deps :
                                 d \in DOMAIN st => st[d] # "completed"})
    IN  IF \E k \in DOMAIN st :
               st[k] = "failed" /\ t \in skipped_on_failure(g, k)
        THEN "skipped"
        ELSE IF enters_ready(count) THEN "ready" ELSE "pending"

CountOnArrival(g, st, t) ==
    Cardinality({d \in g[t].deps : d \in DOMAIN st => st[d] # "completed"})

\* A graph as the plan parser hands it over: ids 1..n, dependencies on
\* smaller ids, the terminal task (if any) last and depending on all.
SchedInit ==
    /\ \E n \in 0..MaxTasks, f \in BOOLEAN :
         \E d \in [1..n -> SUBSET (1..n)] :
            /\ \A t \in 1..n : d[t] \subseteq 1..(t - 1)
            /\ f => (n >= 1 /\ d[n] = 1..(n - 1))
            /\ plan = [t \in 1..n |-> [deps |-> d[t],
                                       is_fuse |-> (f /\ t = n)]]
    /\ streaming \in BOOLEAN
    /\ arrived = IF streaming THEN 0 ELSE Len(plan)
    /\ status = [t \in 1..arrived |-> StatusOnArrival(plan, <<>>, t)]
    /\ remaining = [t \in 1..arrived |-> CountOnArrival(plan, <<>>, t)]
    /\ invoked = [t \in 1..arrived |-> 0]
    /\ error = [t \in 1..arrived |-> "none"]
    /\ spc = "scheduling"
    /\ ParserOff
    /\ FusionOff
    /\ LoopOff
    /\ CallerOff

\* Streaming mode: the next task of the plan arrives.
Arrive ==
    /\ spc = "scheduling"
    /\ streaming
    /\ arrived < Len(plan)
    /\ arrived' = arrived + 1
    /\ status' = Append(status, StatusOnArrival(plan, status, arrived + 1))
    /\ remaining' = Append(remaining,
                           CountOnArrival(plan, status, arrived + 1))
    /\ invoked' = Append(invoked, 0)
    /\ error' = Append(error, "none")
    /\ UNCHANGED <<streaming, plan, spc>>
    /\ UNCHANGED <<pvars, fvars, ovars, cvars>>

\* A ready task begins running: its operation is invoked.
Start(t) ==
    /\ spc = "scheduling"
    /\ t \in 1..arrived
    /\ status[t] = "ready"
    /\ ~plan[t].is_fuse
    /\ status' = [status EXCEPT ![t] = "running"]
    /\ invoked' = [invoked EXCEPT ![t] = @ + 1]
    /\ UNCHANGED <<streaming, plan, arrived, remaining, error, spc>>
    /\ UNCHANGED <<pvars, fvars, ovars, cvars>>

\* The terminal task is a marker: it is never invoked.
PassTerminal(t) ==
    /\ spc = "scheduling"
    /\ t \in 1..arrived
    /\ status[t] = "ready"
    /\ plan[t].is_fuse
    /\ status' = [status EXCEPT ![t] = "completed"]
    /\ UNCHANGED <<streaming, plan, arrived, remaining, invoked, error, spc>>
    /\ UNCHANGED <<pvars, fvars, ovars, cvars>>

\* The operation of t returned: the counts of its dependents go down and
\* those that reach zero become ready.
Succeed(t) ==
    /\ spc = "scheduling"
    /\ t \in 1..arrived
    /\ status[t] = "running"
    /\ remaining' = [u \in 1..arrived |->
                        IF t \in plan[u].deps THEN remaining[u] - 1
                        ELSE remaining[u]]
    /\ status' = [u \in 1..arrived |->
                     IF u = t THEN "completed"
                     ELSE IF /\ t \in plan[u].deps
                             /\ status[u] = "pending"
                             /\ enters_ready(remaining[u] - 1)
                          THEN "ready"
                          ELSE status[u]]
    /\ UNCHANGED <<streaming, plan, arrived, invoked, error, spc>>
    /\ UNCHANGED <<pvars, fvars, ovars, cvars>>

\* The operation of t failed: the error is recorded on t and the
\* dependents are marked skipped without being invoked.
Fail(t) ==
    /\ spc = "scheduling"
    /\ t \in 1..arrived
    /\ status[t] = "running"
    /\ error' = [error EXCEPT ![t] = "error"]
    /\ status' = [u \in 1..arrived |->
                     IF u = t THEN "failed"
                     ELSE IF u \in skipped_on_failure(plan, t) THEN "skipped"
                     ELSE status[u]]
    /\ UNCHANGED <<streaming, plan, arrived, remaining, invoked, spc>>
    /\ UNCHANGED <<pvars, fvars, ovars, cvars>>

\* Every task was handed over and nothing is ready or running: control
\* goes back to the caller.
Return ==
    /\ spc = "scheduling"
    /\ arrived = Len(plan)
    /\ \A t \in 1..arrived : status[t] \notin {"ready", "running"}
    /\ spc' = "returned"
    /\ UNCHANGED <<streaming, plan, arrived, remaining, status, invoked,
                   error>>
    /\ UNCHANGED <<pvars, fvars, ovars, cvars>>

SchedNext ==
    \/ Arrive
    \/ \E t \in 1..Len(plan) : Start(t)
    \/ \E t \in 1..Len(plan) : PassTerminal(t)
    \/ \E t \in 1..Len(plan) : Succeed(t)
    \/ \E t \in 1..Len(plan) : Fail(t)
    \/ Return

SpecSched == SchedInit /\ [][SchedNext]_vars

\* ------------------------------------------------------------------------
\* Properties of the scheduler
\* ------------------------------------------------------------------------

\* C16: when the scheduler has returned control, in batch or in streaming
\* mode, every task of the graph is completed, failed or skipped.
AllTerminalAtReturn ==
    spc = "returned" =>
        /\ DOMAIN status = DOMAIN plan
        /\ \A t \in DOMAIN plan : status[t] \in Terminal

\* C16 witness: the scheduler returned from a graph of three tasks of which
\* one completed, one failed and one was skipped.
AllTerminalAtReturnWitness ==
    /\ spc = "returned"
    /\ Len(plan) = 3
    /\ \E t \in DOMAIN status : status[t] = "completed"
    /\ \E t \in DOMAIN status : status[t] = "failed"
    /\ \E t \in DOMAIN status : status[t] = "skipped"

\* C17: a task that is running, or whose operation was ever invoked, has
\* all its dependencies in a terminal state.
RunsAfterDependencies ==
    \A t \in DOMAIN status :
        (status[t] = "running" \/ invoked[t] > 0) =>
            \A d \in plan[t].deps :
                d \in DOMAIN status /\ status[d] \in Terminal

\* C17 witness: a task with two dependencies is running, both of them
\* completed.
RunsAfterDependenciesWitness ==
    \E t \in DOMAIN status :
        /\ status[t] = "running"
        /\ Cardinality(plan[t].deps) = 2
        /\ \A d \in plan[t].deps : status[d] = "completed"

\* u depends on k directly or through other tasks.
RECURSIVE DependsOn(_, _, _)
DependsOn(g, u, k) ==
    k \in g[u].deps \/ \E d \in g[u].deps : DependsOn(g, d, k)

\* C18: a failure is recorded on the failed task and does not stop the
\* scheduler; no task that depends on a failed task, directly or through
\* others, is ever invoked, and at the return each of them is skipped; at
\* the return every task that depends on no failed task has run (the
\* terminal task, which is never invoked, is completed).
FailureSkipsDependentsOnly ==
    /\ spc \in {"scheduling", "returned"}
    /\ \A k \in DOMAIN status :
          status[k] = "failed" =>
              /\ error[k] # "none"
              /\ \A u \in DOMAIN status :
                    DependsOn(plan, u, k) =>
                        /\ invoked[u] = 0
                        /\ spc = "returned" => status[u] = "skipped"
    /\ spc = "returned" =>
          \A u \in DOMAIN status :
              (\A k \in DOMAIN status :
                   status[k] = "failed" => ~DependsOn(plan, u, k))
              => /\ status[u] \in {"completed", "failed"}
                 /\ invoked[u] = IF plan[u].is_fuse THEN 0 ELSE 1

\* C18 witness: task 1 failed, task 3 depends on it only through task 2,
\* and the scheduler returned.
FailureSkipsDependentsOnlyWitness ==
    /\ spc = "returned"
    /\ Len(plan) = 3
    /\ status[1] = "failed"
    /\ plan[2].deps = {1}
    /\ plan[3].deps = {2}
    /\ status[3] = "skipped"

====
